---------------------------- MODULE Spec2Model ----------------------------
(***************************************************************************)
(* A model of the two image tools of the repository:                       *)
(*                                                                         *)
(*   src/src/convert.c     RGB565 hex stream -> PPM  (ResilientHexDecoder) *)
(*   src/src/bmp_to_hex.c  24-bit BMP -> resized RGB565 hex stream         *)
(*                                                                         *)
(* Characters are one-character strings, text is a sequence of characters, *)
(* a byte is a number in 0..255.                                           *)
(***************************************************************************)
EXTENDS Integers, Sequences, FiniteSets, TLC

VARIABLES
    \* ---- convert.c main ----
    d_pc,        \* position in convert.c main: open, read, fill, done, failed
    input,       \* the whole content of blurred.hex (never changes)
    hex_file,    \* the part of blurred.hex not yet consumed by fgets
    ppm_file,    \* the bytes written to output.ppm after its header
    written,     \* convert.c:65
    pixel,       \* convert.c:67
    last_valid,  \* convert.c:68
    parsed,      \* history: the values parse_rgb565_line has yielded so far
    d_exit,      \* exit status of convert.c main (-1 while running)
    \* ---- bmp_to_hex.c main ----
    e_pc,        \* position in bmp_to_hex.c main
    fh,          \* BMPFileHeader as left by fread (bfType, bfOffBits)
    ih,          \* BMPInfoHeader as left by fread (biWidth, biHeight, biBitCount, biCompression)
    bmp,         \* the input file: [headers |-> both headers are in the file,
                 \*   avail |-> bytes in the file from bfOffBits on, seed |-> its content]
    src_w, src_h, top_down, row_stride,   \* bmp_to_hex.c:140-149
    row,         \* the row loop's counter (bmp_to_hex.c:159)
    fpos,        \* bytes consumed from bfOffBits on
    heap,        \* each block the run may allocate: none, live, freed, double
    row_buf, src_pixels, out_pixels,      \* the pointers: "NULL" or a block of heap
    mem,         \* the content of each block
    hex_out,     \* the text written to the output file
    lines_out,   \* the number of fprintf calls of the write loop so far
    diag,        \* the diagnostics printed to stderr
    e_exit,      \* exit status of bmp_to_hex.c main (-1 while running)
    \* ---- one pixel through both tools ----
    c_pc,        \* start, line (a line of the hex stream is written), decoded
    c_in,        \* the pixel given to to_rgb565, <<>> when the line is not from it
    c_line,      \* the line of the hex stream
    c_out,       \* the three bytes convert.c writes for the line
    \* ---- one call of resize_bilinear ----
    r_pc,        \* start, done
    r_src,       \* the source buffer
    r_dst        \* the buffer resize_bilinear returns

dvars == <<d_pc, input, hex_file, ppm_file, written, pixel, last_valid, parsed, d_exit>>

evars == <<e_pc, fh, ih, bmp, src_w, src_h, top_down, row_stride, row, fpos, heap,
           row_buf, src_pixels, out_pixels, mem, hex_out, lines_out, diag, e_exit>>

cvars == <<c_pc, c_in, c_line, c_out>>

rvars == <<r_pc, r_src, r_dst>>

vars == <<dvars, evars, cvars, rvars>>

not_decode == <<evars, cvars, rvars>>
not_encode == <<dvars, cvars, rvars>>
not_codec  == <<dvars, evars, rvars>>
not_resize == <<dvars, evars, cvars>>

Min(a, b) == IF a < b THEN a ELSE b

\* The least element of a non-empty set of integers.
Least(S) == CHOOSE m \in S : \A k \in S : m <= k

Pad(c, n) == [i \in 1..n |-> c]

---------------------------------------------------------------------------
(* <ctype.h> and strtoul, as far as parse_rgb565_line uses them.           *)

UpperHex == <<"0","1","2","3","4","5","6","7","8","9","A","B","C","D","E","F">>
LowerHex == <<"0","1","2","3","4","5","6","7","8","9","a","b","c","d","e","f">>

\* isspace in the C locale: space, \t, \n, \v, \f, \r (no \v in this alphabet).
isspace(c) == c \in {" ", "\t", "\n", "\f", "\r"}

isxdigit(c) == \E i \in 1..16 : UpperHex[i] = c \/ LowerHex[i] = c

DigitVal(c) == (CHOOSE i \in 1..16 : UpperHex[i] = c \/ LowerHex[i] = c) - 1

\* strtoul(buf, NULL, 16) on a buffer of hexadecimal digits only: the caller
\* has rejected every other character, 'x' included, so neither the optional
\* sign, the 0x prefix nor the stop at an invalid character can occur.
RECURSIVE strtoul(_)
strtoul(buf) ==
    IF buf = <<>> THEN 0
    ELSE strtoul(SubSeq(buf, 1, Len(buf) - 1)) * 16 + DigitVal(buf[Len(buf)])

---------------------------------------------------------------------------
(* convert.c                                                               *)

\* Scaled-down frame: the source has 320 x 240.
WIDTH  == 2
HEIGHT == 1
TOTAL_PIXELS == WIDTH * HEIGHT

LINE_SIZE == 256   \* char line[256]
BUF_SIZE  == 64    \* char buf[64]

\* fgets(line, size, f): the number of characters it takes from the unread
\* text s: at most size-1, stopping after the first newline.
fgets_len(s, size) ==
    LET lim == Min(Len(s), size - 1)
        nl  == {i \in 1..lim : s[i] = "\n"}
    IN  IF nl = {} THEN lim ELSE Least(nl)

\* The line with its leading whitespace skipped (convert.c:14).
skip_space(line) ==
    LET ns == {i \in 1..Len(line) : ~isspace(line[i])}
    IN  IF ns = {} THEN <<>> ELSE SubSeq(line, Least(ns), Len(line))

\* The copy into buf (convert.c:20-26): up to the first CR, LF or end of the
\* string, and at most sizeof(buf)-1 characters.
copy_buf(line) ==
    LET stop == {i \in 1..Len(line) : line[i] = "\r" \/ line[i] = "\n"}
        upto == IF stop = {} THEN Len(line) ELSE Least(stop) - 1
    IN  SubSeq(line, 1, Min(upto, BUF_SIZE - 1))

\* parse_rgb565_line: [ok |-> the return value, out |-> the value stored
\* through out when ok = 1].
parse_rgb565_line(line0) ==
    LET line == skip_space(line0)
        buf  == copy_buf(line)
        n    == Len(buf)
        no   == [ok |-> 0, out |-> 0]
    IN  IF Len(line) >= 2 /\ line[1] = "/" /\ line[2] = "/" THEN no
        ELSE IF n = 0 THEN no
        ELSE IF \E i \in 1..n : buf[i] = "x" \/ buf[i] = "X" THEN no
        ELSE IF \E i \in 1..n : ~isxdigit(buf[i]) THEN no
        ELSE IF n > 4 THEN no
        ELSE [ok |-> 1, out |-> strtoul(buf) % 65536]

\* rgb565_to_rgb888 widening each field by a shift instead of scaling it.
rgb565_to_rgb888_shifted(p) ==
    LET r5 == (p \div 2048) % 32
        g6 == (p \div 32) % 64
        b5 == p % 32
    IN  << (r5 * 8) % 256, (g6 * 4) % 256, (b5 * 8) % 256 >>

\* RGB565 -> RGB888 (convert.c:78-84 and 97-103): the three bytes written.
rgb565_to_rgb888(p) ==
    LET r5 == (p \div 2048) % 32
        g6 == (p \div 32) % 64
        b5 == p % 32
    IN  << ((r5 * 255) \div 31) % 256,
           ((g6 * 255) \div 63) % 256,
           ((b5 * 255) \div 31) % 256 >>

\* The input lines the model draws blurred.hex from: the spec's examples, the
\* other line classes, and lines that reach fgets' and buf's capacity.
MaxLines == 3

Lines ==
    << <<"F","F","F","F","\n">>,                 \* data, 0xFFFF
       <<"1","\n">>,                             \* data, 0x0001
       <<" ","\t","1","a","\n">>,                \* data after whitespace, lower case
       <<"A","B","\r","\n">>,                    \* data, CR LF ending
       <<"0","0","F">>,                          \* data, no line terminator
       <<"/","/","c","\n">>,                     \* comment
       <<"x","x","x","x","\n">>,                 \* placeholder
       <<"1","2","G","4","\n">>,                 \* malformed: not a hex digit
       <<"1","2","3","4","5","\n">>,             \* malformed: five digits
       <<"7"," ","\n">>,                         \* malformed: trailing space
       <<"\n">>,                                 \* blank
       Pad("A", BUF_SIZE + 6) \o <<"\n">>,       \* longer than buf
       Pad("G", LINE_SIZE - 1) \o <<"F","F","F","F","\n">>,   \* longer than line[]
       Pad(" ", LINE_SIZE - 3) \o <<"F","F","F","F","\n">> >> \* split inside the digits

RECURSIVE Concat(_)
Concat(ks) == IF ks = <<>> THEN <<>> ELSE Lines[ks[1]] \o Concat(Tail(ks))

Streams == {Concat(ks) : ks \in UNION {[1..n -> 1..Len(Lines)] : n \in 0..MaxLines}}

DecodeStart ==
    /\ d_pc = "open"
    /\ input \in Streams
    /\ hex_file = input
    /\ ppm_file = <<>>
    /\ written = 0
    /\ pixel = 0
    /\ last_valid = 0
    /\ parsed = <<>>
    /\ d_exit = -1

\* convert.c:49-62: both files open, or the run returns 1.
OpenFiles ==
    /\ d_pc = "open"
    /\ UNCHANGED not_decode
    /\ \E hex_ok, ppm_ok \in BOOLEAN :
          IF hex_ok /\ ppm_ok
          THEN d_pc' = "read" /\ d_exit' = d_exit
          ELSE d_pc' = "failed" /\ d_exit' = 1
    /\ UNCHANGED <<input, hex_file, ppm_file, written, pixel, last_valid, parsed>>

\* ReadValid without the quota test of the loop condition.
ReadValidNoQuota ==
    /\ d_pc = "read"
    /\ UNCHANGED not_decode
    /\ hex_file # <<>>
    /\ LET k == fgets_len(hex_file, LINE_SIZE)
           r == parse_rgb565_line(SubSeq(hex_file, 1, k))
       IN  /\ r.ok = 1
           /\ hex_file' = SubSeq(hex_file, k + 1, Len(hex_file))
           /\ pixel' = r.out
           /\ last_valid' = r.out
           /\ ppm_file' = ppm_file \o rgb565_to_rgb888(r.out)
           /\ written' = written + 1
           /\ parsed' = Append(parsed, r.out)
    /\ UNCHANGED <<d_pc, input, d_exit>>

\* One iteration of the read loop (convert.c:70-91) on a line that parses.
ReadValid ==
    /\ d_pc = "read"
    /\ UNCHANGED not_decode
    /\ written < TOTAL_PIXELS
    /\ hex_file # <<>>
    /\ LET k == fgets_len(hex_file, LINE_SIZE)
           r == parse_rgb565_line(SubSeq(hex_file, 1, k))
       IN  /\ r.ok = 1
           /\ hex_file' = SubSeq(hex_file, k + 1, Len(hex_file))
           /\ pixel' = r.out
           /\ last_valid' = r.out
           /\ ppm_file' = ppm_file \o rgb565_to_rgb888(r.out)
           /\ written' = written + 1
           /\ parsed' = Append(parsed, r.out)
    /\ UNCHANGED <<d_pc, input, d_exit>>

\* One iteration of the read loop on a line that does not parse: continue.
ReadSkip ==
    /\ d_pc = "read"
    /\ UNCHANGED not_decode
    /\ written < TOTAL_PIXELS
    /\ hex_file # <<>>
    /\ LET k == fgets_len(hex_file, LINE_SIZE)
           r == parse_rgb565_line(SubSeq(hex_file, 1, k))
       IN  /\ r.ok = 0
           /\ hex_file' = SubSeq(hex_file, k + 1, Len(hex_file))
    /\ UNCHANGED <<d_pc, input, ppm_file, written, pixel, last_valid, parsed, d_exit>>

\* The read loop ends: the quota is filled or fgets returns NULL.
ReadEnd ==
    /\ d_pc = "read"
    /\ UNCHANGED not_decode
    /\ ~(written < TOTAL_PIXELS /\ hex_file # <<>>)
    /\ d_pc' = "fill"
    /\ UNCHANGED <<input, hex_file, ppm_file, written, pixel, last_valid, parsed, d_exit>>

\* One iteration of the fill loop (convert.c:94-110).
Fill ==
    /\ d_pc = "fill"
    /\ UNCHANGED not_decode
    /\ written < TOTAL_PIXELS
    /\ ppm_file' = ppm_file \o rgb565_to_rgb888(last_valid)
    /\ written' = written + 1
    /\ UNCHANGED <<d_pc, input, hex_file, pixel, last_valid, parsed, d_exit>>

\* convert.c:112-116.
DecodeExit ==
    /\ d_pc = "fill"
    /\ UNCHANGED not_decode
    /\ ~(written < TOTAL_PIXELS)
    /\ d_pc' = "done"
    /\ d_exit' = 0
    /\ UNCHANGED <<input, hex_file, ppm_file, written, pixel, last_valid, parsed>>

\* convert.c is not running.
DecodeIdle ==
    /\ d_pc = "idle"
    /\ input = <<>>
    /\ hex_file = <<>>
    /\ ppm_file = <<>>
    /\ written = 0
    /\ pixel = 0
    /\ last_valid = 0
    /\ parsed = <<>>
    /\ d_exit = -1

---------------------------------------------------------------------------
(* bmp_to_hex.c                                                            *)

\* The output frame, scaled down from the source's 320 x 240 to a power of
\* two in each direction: the scale factors src/dst, the sample coordinates
\* and the blends are then exact in float, so the integer arithmetic of
\* resize_bilinear below is the float arithmetic of the source bit for bit.
OUT_LOG2 == 1
OUT_WIDTH  == 2 ^ OUT_LOG2
OUT_HEIGHT == 2 ^ OUT_LOG2

BM == 19778               \* 0x4D42
HEADER_BYTES == 54        \* sizeof(BMPFileHeader) + sizeof(BMPInfoHeader)

\* The magnitudes of the header's width and height the model draws.
MaxDim == 2

\* What an uninitialised byte may hold.
Garbage == {0, 255}

\* The byte at offset k of an input file of content seed: distinct bytes at
\* distinct offsets of a file shorter than 256 bytes.
FileByte(seed, k) == (seed + 37 * k) % 256

\* Convert 8-bit R,G,B to RGB565 (bmp_to_hex.c:47-52).
to_rgb565(r, g, b) ==
    LET r5 == (r \div 8) % 32
        g6 == (g \div 4) % 64
        b5 == (b \div 8) % 32
    IN  (r5 * 2048 + g6 * 32 + b5) % 65536

\* fprintf(out, "%04X\n", v) for a 16-bit v.
fprintf_04X(v) ==
    << UpperHex[((v \div 4096) % 16) + 1], UpperHex[((v \div 256) % 16) + 1],
       UpperHex[((v \div 16) % 16) + 1], UpperHex[(v % 16) + 1], "\n" >>

\* int x0 = (int)(dst_x * x_scale) (bmp_to_hex.c:61-70), also for y.
coord0(dst_x, s_w, d_w) == (dst_x * s_w) \div d_w

\* int x1 = x0 + 1 < src_w ? x0 + 1 : x0 (bmp_to_hex.c:71-72), also for y.
coord1(x0, s_w) == IF x0 + 1 < s_w THEN x0 + 1 ELSE x0

\* dx = src_xf - x0 as a numerator over d_w (bmp_to_hex.c:74-75).
frac(dst_x, s_w, d_w) == (dst_x * s_w) % d_w

\* src[i]: the pixel of the buffer, or whatever lies behind its end.
pixel_at(src, i, junk) ==
    IF i + 1 \in 1..Len(src) THEN src[i + 1] ELSE [r |-> junk, g |-> junk, b |-> junk]

\* blend rounding to the nearest value instead of truncating.
blend_rounded(p00, p10, p01, p11, fx, fy, d_w, d_h) ==
    (( 2 * ( p00 * (d_w - fx) * (d_h - fy) + p10 * fx * (d_h - fy)
           + p01 * (d_w - fx) * fy + p11 * fx * fy) + d_w * d_h)
      \div (2 * d_w * d_h)) % 256

\* One channel of one destination pixel (bmp_to_hex.c:83-91): the blend,
\* truncated by the conversion to uint8_t.
blend(p00, p10, p01, p11, fx, fy, d_w, d_h) ==
    (( p00 * (d_w - fx) * (d_h - fy) + p10 * fx * (d_h - fy)
     + p01 * (d_w - fx) * fy + p11 * fx * fy) \div (d_w * d_h)) % 256

\* resize_bilinear (bmp_to_hex.c:57-95) once dst is allocated: the
\* destination buffer, row-major.
resize_bilinear(src, s_w, s_h, d_w, d_h, junk) ==
    [k \in 1..(d_w * d_h) |->
        LET dst_x == (k - 1) % d_w
            dst_y == (k - 1) \div d_w
            x0 == coord0(dst_x, s_w, d_w)
            y0 == coord0(dst_y, s_h, d_h)
            x1 == coord1(x0, s_w)
            y1 == coord1(y0, s_h)
            fx == frac(dst_x, s_w, d_w)
            fy == frac(dst_y, s_h, d_h)
            p00 == pixel_at(src, y0 * s_w + x0, junk)
            p10 == pixel_at(src, y0 * s_w + x1, junk)
            p01 == pixel_at(src, y1 * s_w + x0, junk)
            p11 == pixel_at(src, y1 * s_w + x1, junk)
        IN  [r |-> blend(p00.r, p10.r, p01.r, p11.r, fx, fy, d_w, d_h),
             g |-> blend(p00.g, p10.g, p01.g, p11.g, fx, fy, d_w, d_h),
             b |-> blend(p00.b, p10.b, p01.b, p11.b, fx, fy, d_w, d_h)]]

\* The indices of src that resize_bilinear reads (bmp_to_hex.c:77-80).
read_indices(s_w, s_h, d_w, d_h) ==
    UNION { LET x0 == coord0(dst_x, s_w, d_w)
                y0 == coord0(dst_y, s_h, d_h)
                x1 == coord1(x0, s_w)
                y1 == coord1(y0, s_h)
            IN  {y0 * s_w + x0, y0 * s_w + x1, y1 * s_w + x0, y1 * s_w + x1}
            : dst_x \in 0..(d_w - 1), dst_y \in 0..(d_h - 1) }

abs(n) == IF n < 0 THEN -n ELSE n

\* stride_of without the padding to 4 bytes.
stride_unpadded(w) == w * 3

\* (src_w * 3 + 3) & ~3
stride_of(w) == ((w * 3 + 3) \div 4) * 4

\* free(p)
free(h, p) ==
    IF p = "NULL" THEN h
    ELSE [h EXCEPT ![p] = IF @ = "live" THEN "freed" ELSE "double"]

NoHeader == [bfType |-> 0, bfOffBits |-> 0]
NoInfo == [biWidth |-> 0, biHeight |-> 0, biBitCount |-> 0, biCompression |-> 0]
NoFile == [headers |-> FALSE, avail |-> 0, seed |-> 0]

EncodeStart ==
    /\ e_pc = "start"
    /\ fh = NoHeader
    /\ ih = NoInfo
    /\ bmp = NoFile
    /\ src_w = 0 /\ src_h = 0 /\ top_down = 0 /\ row_stride = 0
    /\ row = 0
    /\ fpos = 0
    /\ heap = [b \in {"row", "src", "dst"} |-> "none"]
    /\ row_buf = "NULL" /\ src_pixels = "NULL" /\ out_pixels = "NULL"
    /\ mem = [b \in {"row", "src", "dst"} |-> <<>>]
    /\ hex_out = <<>>
    /\ lines_out = 0
    /\ diag = <<>>
    /\ e_exit = -1

\* bmp_to_hex.c is not running.
EncodeIdle ==
    /\ e_pc = "idle"
    /\ fh = NoHeader
    /\ ih = NoInfo
    /\ bmp = NoFile
    /\ src_w = 0 /\ src_h = 0 /\ top_down = 0 /\ row_stride = 0
    /\ row = 0
    /\ fpos = 0
    /\ heap = [b \in {"row", "src", "dst"} |-> "none"]
    /\ row_buf = "NULL" /\ src_pixels = "NULL" /\ out_pixels = "NULL"
    /\ mem = [b \in {"row", "src", "dst"} |-> <<>>]
    /\ hex_out = <<>>
    /\ lines_out = 0
    /\ diag = <<>>
    /\ e_exit = -1

\* return 1 after the diagnostic d.
Fail(d) ==
    /\ e_pc' = "failed"
    /\ diag' = Append(diag, d)
    /\ e_exit' = 1

\* bmp_to_hex.c:101-116: the argument count and the input file.
OpenInput ==
    /\ e_pc = "start"
    /\ UNCHANGED not_encode
    /\ \E argc \in {2, 3}, opened \in BOOLEAN :
          IF argc < 3 THEN Fail("Usage")
          ELSE IF ~opened THEN Fail("Cannot open input BMP")
          ELSE e_pc' = "headers" /\ UNCHANGED <<diag, e_exit>>
    /\ UNCHANGED <<fh, ih, bmp, src_w, src_h, top_down, row_stride, row, fpos, heap,
                   row_buf, src_pixels, out_pixels, mem, hex_out, lines_out>>

\* The headers a file may hold, and what fh and ih may hold when the file is
\* too short for them and fread leaves them uninitialised.
FileHeaders == [bfType : {BM, 0}, bfOffBits : {HEADER_BYTES, HEADER_BYTES + 2}]
InfoHeaders == [biWidth : (-MaxDim)..MaxDim, biHeight : (-MaxDim)..MaxDim,
                biBitCount : {24, 8}, biCompression : {0, 1}]

\* The numbers of bytes a file may hold from bfOffBits on, for a pixel array
\* of need bytes in rows of stride bytes: all of it and more, all of it, one
\* byte less, one row less, none.
FileSizes(need, stride) ==
    {n \in {need + 2, need, need - 1, need - stride, 0} : n >= 0}

\* bmp_to_hex.c:118-121: the two fread calls, whose results are not tested.
ReadHeaders ==
    /\ e_pc = "headers"
    /\ UNCHANGED not_encode
    /\ \E f \in FileHeaders, i \in InfoHeaders, present \in BOOLEAN, s \in {0, 101} :
          /\ fh' = f
          /\ ih' = i
          /\ \E n \in (IF present
                       THEN FileSizes(stride_of(abs(i.biWidth)) * abs(i.biHeight),
                                      stride_of(abs(i.biWidth)))
                       ELSE {0}) :
                bmp' = [headers |-> present, avail |-> n, seed |-> s]
    /\ e_pc' = "check"
    /\ UNCHANGED <<src_w, src_h, top_down, row_stride, row, fpos, heap, row_buf,
                   src_pixels, out_pixels, mem, hex_out, lines_out, diag, e_exit>>

\* header_error without the test of biCompression.
header_error_no_compression(f, i) ==
    IF f.bfType # BM THEN "Not a valid BMP file"
    ELSE IF i.biBitCount # 24 THEN "Only 24-bit BMP is supported"
    ELSE "none"

\* bmp_to_hex.c:123-138: the diagnostic of the first header test that fails.
header_error(f, i) ==
    IF f.bfType # BM THEN "Not a valid BMP file"
    ELSE IF i.biBitCount # 24 THEN "Only 24-bit BMP is supported"
    ELSE IF i.biCompression # 0 THEN "Compressed BMP not supported"
    ELSE "none"

\* bmp_to_hex.c:123-149: reject the header, or take the dimensions from it.
CheckHeaders ==
    /\ e_pc = "check"
    /\ UNCHANGED not_encode
    /\ IF header_error(fh, ih) # "none"
       THEN /\ Fail(header_error(fh, ih))
            /\ UNCHANGED <<src_w, src_h, top_down, row_stride>>
       ELSE /\ src_w' = abs(ih.biWidth)
            /\ src_h' = abs(ih.biHeight)
            /\ top_down' = (IF ih.biHeight < 0 THEN 1 ELSE 0)
            /\ row_stride' = stride_of(abs(ih.biWidth))
            /\ e_pc' = "alloc"
            /\ UNCHANGED <<diag, e_exit>>
    /\ UNCHANGED <<fh, ih, bmp, row, fpos, heap, row_buf, src_pixels, out_pixels, mem,
                   hex_out, lines_out>>

\* bmp_to_hex.c:150-157: the two malloc calls, each of which may return NULL
\* (or, for a size of 0, a block of no bytes), and the seek to the pixel data.
AllocBuffers ==
    /\ e_pc = "alloc"
    /\ UNCHANGED not_encode
    /\ \E got_row, got_src \in BOOLEAN, junk \in Garbage :
          /\ row_buf' = (IF got_row THEN "row" ELSE "NULL")
          /\ src_pixels' = (IF got_src THEN "src" ELSE "NULL")
          /\ heap' = [heap EXCEPT !["row"] = IF got_row THEN "live" ELSE @,
                                  !["src"] = IF got_src THEN "live" ELSE @]
          /\ mem' = [mem EXCEPT
                       !["row"] = IF got_row THEN [k \in 1..row_stride |-> junk] ELSE @,
                       !["src"] = IF got_src
                                  THEN [k \in 1..(src_w * src_h) |->
                                           [r |-> junk, g |-> junk, b |-> junk]]
                                  ELSE @]
          /\ IF got_row /\ got_src
             THEN e_pc' = "rows" /\ UNCHANGED <<diag, e_exit>>
             ELSE Fail("Memory allocation failed")
    /\ row' = 0
    /\ fpos' = 0
    /\ UNCHANGED <<fh, ih, bmp, src_w, src_h, top_down, row_stride, out_pixels,
                   hex_out, lines_out>>

\* One iteration of the row loop (bmp_to_hex.c:159-171): fread takes what the
\* file still holds, at most row_stride bytes, and leaves the rest of row_buf
\* as it was; its result is not tested.
ReadRow ==
    /\ e_pc = "rows"
    /\ UNCHANGED not_encode
    /\ row < src_h
    /\ LET left    == IF bmp.avail > fpos THEN bmp.avail - fpos ELSE 0
           n       == Min(row_stride, left)
           rb      == [k \in 1..row_stride |->
                          IF k <= n THEN FileByte(bmp.seed, fh.bfOffBits + fpos + k - 1)
                          ELSE mem["row"][k]]
           dst_row == IF top_down = 1 THEN row ELSE src_h - 1 - row
       IN  /\ fpos' = fpos + n
           /\ mem' = [mem EXCEPT
                        !["row"] = rb,
                        !["src"] = [k \in 1..Len(@) |->
                                      IF (k - 1) \div src_w = dst_row
                                      THEN LET col == (k - 1) % src_w
                                           IN  [r |-> rb[col * 3 + 3],
                                                g |-> rb[col * 3 + 2],
                                                b |-> rb[col * 3 + 1]]
                                      ELSE @[k]]]
    /\ row' = row + 1
    /\ UNCHANGED <<e_pc, fh, ih, bmp, src_w, src_h, top_down, row_stride, heap, row_buf,
                   src_pixels, out_pixels, hex_out, lines_out, diag, e_exit>>

\* bmp_to_hex.c:172-173: after the last row.
RowsDone ==
    /\ e_pc = "rows"
    /\ UNCHANGED not_encode
    /\ ~(row < src_h)
    /\ heap' = free(heap, row_buf)
    /\ e_pc' = "resize"
    /\ UNCHANGED <<fh, ih, bmp, src_w, src_h, top_down, row_stride, row, fpos, row_buf,
                   src_pixels, out_pixels, mem, hex_out, lines_out, diag, e_exit>>

\* bmp_to_hex.c:180-182: the image has the output size already.
ResizeSkip ==
    /\ e_pc = "resize"
    /\ UNCHANGED not_encode
    /\ src_w = OUT_WIDTH /\ src_h = OUT_HEIGHT
    /\ out_pixels' = src_pixels
    /\ e_pc' = "open_out"
    /\ UNCHANGED <<fh, ih, bmp, src_w, src_h, top_down, row_stride, row, fpos, heap,
                   row_buf, src_pixels, mem, hex_out, lines_out, diag, e_exit>>

\* bmp_to_hex.c:183-192 when the malloc of resize_bilinear returns NULL.
ResizeFail ==
    /\ e_pc = "resize"
    /\ UNCHANGED not_encode
    /\ ~(src_w = OUT_WIDTH /\ src_h = OUT_HEIGHT)
    /\ out_pixels' = "NULL"
    /\ heap' = free(heap, src_pixels)
    /\ Fail("Resize failed")
    /\ UNCHANGED <<fh, ih, bmp, src_w, src_h, top_down, row_stride, row, fpos,
                   row_buf, src_pixels, mem, hex_out, lines_out>>

\* The reads of resize_bilinear stay inside the source buffer.
reads_in_bounds(s_w, s_h, d_w, d_h) ==
    \A i \in read_indices(s_w, s_h, d_w, d_h) : i >= 0 /\ i < s_w * s_h

\* bmp_to_hex.c:183-193 when resize_bilinear returns a buffer. A read behind
\* the end of the source buffer yields whatever lies there.
ResizeDone ==
    /\ e_pc = "resize"
    /\ UNCHANGED not_encode
    /\ ~(src_w = OUT_WIDTH /\ src_h = OUT_HEIGHT)
    /\ \E junk \in Garbage :
          mem' = [mem EXCEPT !["dst"] = resize_bilinear(mem[src_pixels], src_w, src_h,
                                                        OUT_WIDTH, OUT_HEIGHT, junk)]
    /\ out_pixels' = "dst"
    /\ heap' = free([heap EXCEPT !["dst"] = "live"], src_pixels)
    /\ e_pc' = "open_out"
    /\ UNCHANGED <<fh, ih, bmp, src_w, src_h, top_down, row_stride, row, fpos,
                   row_buf, src_pixels, hex_out, lines_out, diag, e_exit>>

\* A read behind the end of the source buffer may also end the process
\* (SIGSEGV) inside resize_bilinear.
ResizeCrash ==
    /\ e_pc = "resize"
    /\ UNCHANGED not_encode
    /\ ~(src_w = OUT_WIDTH /\ src_h = OUT_HEIGHT)
    /\ ~reads_in_bounds(src_w, src_h, OUT_WIDTH, OUT_HEIGHT)
    /\ heap' = [heap EXCEPT !["dst"] = "live"]
    /\ e_pc' = "crashed"
    /\ e_exit' = 139
    /\ UNCHANGED <<fh, ih, bmp, src_w, src_h, top_down, row_stride, row, fpos, row_buf,
                   src_pixels, out_pixels, mem, hex_out, lines_out, diag>>

\* bmp_to_hex.c:200-204.
OpenOutput ==
    /\ e_pc = "open_out"
    /\ UNCHANGED not_encode
    /\ \E opened \in BOOLEAN :
          IF opened THEN e_pc' = "write" /\ UNCHANGED <<diag, e_exit>>
          ELSE Fail("Cannot open output file")
    /\ UNCHANGED <<fh, ih, bmp, src_w, src_h, top_down, row_stride, row, fpos, heap,
                   row_buf, src_pixels, out_pixels, mem, hex_out, lines_out>>

\* One iteration of the write loops (bmp_to_hex.c:206-212).
WriteLine ==
    /\ e_pc = "write"
    /\ UNCHANGED not_encode
    /\ lines_out < OUT_WIDTH * OUT_HEIGHT
    /\ LET p == mem[out_pixels][lines_out + 1]
       IN  hex_out' = hex_out \o fprintf_04X(to_rgb565(p.r, p.g, p.b))
    /\ lines_out' = lines_out + 1
    /\ UNCHANGED <<e_pc, fh, ih, bmp, src_w, src_h, top_down, row_stride, row, fpos, heap,
                   row_buf, src_pixels, out_pixels, mem, diag, e_exit>>

\* bmp_to_hex.c:214-219.
EncodeExit ==
    /\ e_pc = "write"
    /\ UNCHANGED not_encode
    /\ ~(lines_out < OUT_WIDTH * OUT_HEIGHT)
    /\ heap' = free(heap, out_pixels)
    /\ e_pc' = "done"
    /\ e_exit' = 0
    /\ UNCHANGED <<fh, ih, bmp, src_w, src_h, top_down, row_stride, row, fpos, row_buf,
                   src_pixels, out_pixels, mem, hex_out, lines_out, diag>>

---------------------------------------------------------------------------
(* One pixel from bmp_to_hex.c's write loop to convert.c's read loop        *)

\* The pixels given to to_rgb565: every value of every channel, beside equal
\* and beside different values of the other two.
CodecPixels ==
    {[r |-> c, g |-> c, b |-> c] : c \in 0..255}
    \cup {[r |-> c, g |-> 255 - c, b |-> (c * 3) % 256] : c \in 0..255}

CodecStart ==
    /\ c_pc = "start"
    /\ c_in = <<>>
    /\ c_line = <<>>
    /\ c_out = <<>>

CodecIdle ==
    /\ c_pc = "idle"
    /\ c_in = <<>>
    /\ c_line = <<>>
    /\ c_out = <<>>

\* bmp_to_hex.c:208-210 for one pixel.
CodecEncode ==
    /\ c_pc = "start"
    /\ UNCHANGED not_codec
    /\ \E p \in CodecPixels :
          /\ c_in' = p
          /\ c_line' = fprintf_04X(to_rgb565(p.r, p.g, p.b))
    /\ c_pc' = "line"
    /\ UNCHANGED c_out

\* A line of four hexadecimal digits that need not come from to_rgb565.
CodecLoad ==
    /\ c_pc = "start"
    /\ UNCHANGED not_codec
    /\ \E w \in 0..65535 : c_line' = fprintf_04X(w)
    /\ c_pc' = "line"
    /\ UNCHANGED <<c_in, c_out>>

\* convert.c:70-88 for one line.
CodecDecode ==
    /\ c_pc = "line"
    /\ UNCHANGED not_codec
    /\ parse_rgb565_line(c_line).ok = 1
    /\ c_out' = rgb565_to_rgb888(parse_rgb565_line(c_line).out)
    /\ c_pc' = "decoded"
    /\ UNCHANGED <<c_in, c_line>>

---------------------------------------------------------------------------
(* One call of resize_bilinear: a 2 x 2 source to a 4 x 4 destination      *)

Palette ==
    { [r |-> 255, g |-> 0, b |-> 0], [r |-> 0, g |-> 255, b |-> 0],
      [r |-> 0, g |-> 0, b |-> 255], [r |-> 255, g |-> 255, b |-> 255],
      [r |-> 10, g |-> 21, b |-> 32], [r |-> 11, g |-> 20, b |-> 35] }

\* The 2 x 2 buffers of four distinct colours.
Sources2x2 == {q \in [1..4 -> Palette] : \A i, j \in 1..4 : i # j => q[i] # q[j]}

ResizeStart ==
    /\ r_pc = "start"
    /\ r_src \in Sources2x2
    /\ r_dst = <<>>

ResizeIdle ==
    /\ r_pc = "idle"
    /\ r_src = <<>>
    /\ r_dst = <<>>

\* resize_bilinear(src, 2, 2, 4, 4), its malloc having succeeded.
ResizeCall ==
    /\ r_pc = "start"
    /\ UNCHANGED not_resize
    /\ r_dst' = resize_bilinear(r_src, 2, 2, 4, 4, 0)
    /\ r_pc' = "done"
    /\ UNCHANGED r_src

---------------------------------------------------------------------------
(* The runs                                                                *)

DecodeInit == DecodeStart /\ EncodeIdle /\ CodecIdle /\ ResizeIdle
DecodeNext == OpenFiles \/ ReadValid \/ ReadSkip \/ ReadEnd \/ Fill \/ DecodeExit
DecodeSpec == DecodeInit /\ [][DecodeNext]_vars

EncodeInit == EncodeStart /\ DecodeIdle /\ CodecIdle /\ ResizeIdle
EncodeNext ==
    \/ OpenInput \/ ReadHeaders \/ CheckHeaders \/ AllocBuffers \/ ReadRow \/ RowsDone
    \/ ResizeSkip \/ ResizeFail \/ ResizeDone \/ ResizeCrash \/ OpenOutput \/ WriteLine
    \/ EncodeExit
EncodeSpec == EncodeInit /\ [][EncodeNext]_vars

CodecInit == CodecStart /\ DecodeIdle /\ EncodeIdle /\ ResizeIdle
CodecNext == CodecEncode \/ CodecLoad \/ CodecDecode
CodecSpec == CodecInit /\ [][CodecNext]_vars

ResizeInit == ResizeStart /\ DecodeIdle /\ EncodeIdle /\ CodecIdle
ResizeNext == ResizeCall
ResizeSpec == ResizeInit /\ [][ResizeNext]_vars

\* Any one of the runs.
Init == DecodeInit \/ EncodeInit \/ CodecInit \/ ResizeInit
Next == DecodeNext \/ EncodeNext \/ CodecNext \/ ResizeNext
Spec == Init /\ [][Next]_vars

---------------------------------------------------------------------------
(* What the specification says of a hex stream, stated on the stream's     *)
(* lines and not on what fgets returns.                                    *)

\* The lines of a text: maximal runs of characters ended by a newline or by
\* the end of the text.
RECURSIVE SplitLines(_)
SplitLines(s) ==
    IF s = <<>> THEN <<>>
    ELSE LET nl == {i \in 1..Len(s) : s[i] = "\n"}
             k  == IF nl = {} THEN Len(s) ELSE Least(nl)
         IN  <<SubSeq(s, 1, k)>> \o SplitLines(SubSeq(s, k + 1, Len(s)))

\* A line's content: leading whitespace stripped, cut at the first CR or LF.
Content(l) ==
    LET ns   == {i \in 1..Len(l) : ~isspace(l[i])}
        t    == IF ns = {} THEN <<>> ELSE SubSeq(l, Least(ns), Len(l))
        stop == {i \in 1..Len(t) : t[i] \in {"\r", "\n"}}
    IN  IF stop = {} THEN t ELSE SubSeq(t, 1, Least(stop) - 1)

\* A data line: 1 to 4 hexadecimal digits and nothing else.
IsDataLine(l) ==
    /\ Len(Content(l)) \in 1..4
    /\ \A i \in 1..Len(Content(l)) : isxdigit(Content(l)[i])

RECURSIVE HexNumber(_)
HexNumber(c) ==
    IF c = <<>> THEN 0
    ELSE 16 * HexNumber(SubSeq(c, 1, Len(c) - 1)) + DigitVal(c[Len(c)])

\* v_0 .. v_{K-1}: the values of the data lines of a text, in stream order.
RECURSIVE ValuesOf(_)
ValuesOf(ls) ==
    IF ls = <<>> THEN <<>>
    ELSE (IF IsDataLine(ls[1]) THEN <<HexNumber(Content(ls[1]))>> ELSE <<>>)
         \o ValuesOf(Tail(ls))

DataValues(s) == ValuesOf(SplitLines(s))

\* The TOTAL_PIXELS packed values the shortfall policy asks for.
ExpectedWords(s) ==
    LET v == DataValues(s)
        K == Len(v)
    IN  [i \in 1..TOTAL_PIXELS |-> IF i <= K THEN v[i] ELSE IF K = 0 THEN 0 ELSE v[K]]

RECURSIVE BytesOf(_)
BytesOf(ws) == IF ws = <<>> THEN <<>> ELSE rgb565_to_rgb888(ws[1]) \o BytesOf(Tail(ws))

\* Every line of the text fits one fgets call: at most LINE_SIZE-1 characters,
\* its newline included.
ShortLines(s) == \A i \in 1..Len(SplitLines(s)) : Len(SplitLines(s)[i]) <= LINE_SIZE - 1

---------------------------------------------------------------------------
(* Claims on convert.c                                                     *)

\* An upper bound on the steps a run has left: the unread characters, the
\* pixels still to write, and the loop exits.
StepsLeft ==
    CASE d_pc = "open" -> Len(input) + TOTAL_PIXELS + 4
      [] d_pc = "read" -> Len(hex_file) + (TOTAL_PIXELS - written) + 2
      [] d_pc = "fill" -> (TOTAL_PIXELS - written) + 1
      [] OTHER         -> 0

\* C1: a decoder run never has written more than TOTAL_PIXELS pixels (three
\* bytes each), ends (every step of the run, each fgets call included, lowers
\* the bound StepsLeft >= 0, and it is 0 only once the run has returned), and
\* has written exactly TOTAL_PIXELS pixels when it returns 0, whatever the
\* input stream.
C1_ExactlyTotalPixels ==
    /\ [](/\ written <= TOTAL_PIXELS
          /\ Len(ppm_file) = 3 * written
          /\ StepsLeft >= 0
          /\ (StepsLeft = 0 <=> d_pc \in {"done", "failed"})
          /\ (d_pc = "failed" => written = 0)
          /\ (d_pc = "done" => written = TOTAL_PIXELS /\ d_exit = 0))
    /\ [][StepsLeft' < StepsLeft]_vars

\* C1 witness: a run over a non-empty stream without a single data line has
\* ended with the whole frame written by the fill loop.
C1_Witness ==
    /\ d_pc = "done"
    /\ input # <<>>
    /\ parsed = <<>>
    /\ Len(ppm_file) = 3 * TOTAL_PIXELS

\* C2: when the run has ended the output is v_0 .. v_{K-1} of the stream's
\* data lines, cut to TOTAL_PIXELS, and padded with the last of them (0 when
\* K = 0) up to TOTAL_PIXELS.
C2_OutputIsDataValuesThenFill ==
    d_pc = "done" => ppm_file = BytesOf(ExpectedWords(input))

\* C2 holds of the streams whose lines each fit one fgets call.
C2_ForShortLines ==
    (d_pc = "done" /\ ShortLines(input)) => ppm_file = BytesOf(ExpectedWords(input))

\* C3: once the read loop has ended, the values the parser has yielded are
\* those of the stream's data lines, one per data line and none for any other
\* line, up to the quota of TOTAL_PIXELS.
C3_OneValuePerDataLineOnly ==
    d_pc \in {"fill", "done"} =>
        parsed = SubSeq(DataValues(input), 1, Min(Len(DataValues(input)), TOTAL_PIXELS))

\* C3 holds of the streams whose lines each fit one fgets call.
C3_ForShortLines ==
    (d_pc \in {"fill", "done"} /\ ShortLines(input)) =>
        parsed = SubSeq(DataValues(input), 1, Min(Len(DataValues(input)), TOTAL_PIXELS))

---------------------------------------------------------------------------
(* Claims on bmp_to_hex.c                                                  *)

Blocks == {"row", "src", "dst"}

Range(q) == {q[i] : i \in 1..Len(q)}

\* C4: when the encode run has returned, by any path, every block it
\* allocated has been released exactly once (none still live, none freed twice).
C4_EveryBufferReleasedOnce ==
    e_pc \in {"done", "failed"} => \A b \in Blocks : heap[b] \in {"none", "freed"}

\* The header is one the decoder must reject.
HeaderRejected == fh.bfType # BM \/ ih.biBitCount # 24 \/ ih.biCompression # 0

\* C5: once the header tests are past, a header with a wrong signature, bit
\* depth or compression flag has ended the run with a non-zero status, no
\* block allocated and no hex line written; every failed run, allocation and
\* output-open failure included, has a non-zero status and no hex line
\* written, and each of these diagnostics ends the run at once; status 0 is
\* returned only with all OUT_WIDTH x OUT_HEIGHT lines written.
C5_FatalErrorsWriteNothing ==
    /\ (e_pc \notin {"idle", "start", "headers", "check"} /\ HeaderRejected) =>
          /\ e_pc = "failed"
          /\ e_exit > 0
          /\ \A b \in Blocks : heap[b] = "none"
          /\ hex_out = <<>> /\ lines_out = 0
    /\ e_pc = "failed" => (e_exit > 0 /\ hex_out = <<>> /\ lines_out = 0)
    /\ diag # <<>> => e_pc = "failed"
    /\ e_exit = 0 =>
          /\ e_pc = "done"
          /\ lines_out = OUT_WIDTH * OUT_HEIGHT
          /\ Len(hex_out) = 5 * OUT_WIDTH * OUT_HEIGHT

\* C5 witness: a run on a 24-bit "BM" file with a compression flag has been
\* refused.
C5_Witness ==
    /\ e_pc = "failed"
    /\ fh.bfType = BM /\ ih.biBitCount = 24 /\ ih.biCompression # 0
    /\ diag = <<"Compressed BMP not supported">>
    /\ e_exit = 1

\* C6: an encode run returns 0 only if the file held both headers and all
\* src_h rows of row_stride bytes from the pixel-data offset on.
C6_TruncatedFileFails ==
    e_exit = 0 => (bmp.headers /\ bmp.avail >= row_stride * src_h)

\* The bytes of one row in the file: width * 3 rounded up to a multiple of 4.
PaddedRowBytes(w) == CHOOSE n \in (3 * w)..(3 * w + 3) : n % 4 = 0

\* The file holds all of the k-th row read (k from 0).
RowInFile(k) == bmp.avail >= (k + 1) * PaddedRowBytes(src_w)

\* The pixel at column x of the k-th row read, its B,G,R bytes as R,G,B.
FilePixel(x, k) ==
    LET at == fh.bfOffBits + k * PaddedRowBytes(src_w) + 3 * x
    IN  [r |-> FileByte(bmp.seed, at + 2),
         g |-> FileByte(bmp.seed, at + 1),
         b |-> FileByte(bmp.seed, at)]

\* The row of the file that buffer row y comes from.
FileRowOf(y) == IF ih.biHeight < 0 THEN y ELSE src_h - 1 - y

\* C9: for an accepted header with width and height magnitude >= 1, every
\* pixel (x, y) of the canonical buffer whose row has been read from the file
\* is the pixel at column x of the y-th row read when the height field is
\* negative and of the (H-1-y)-th row read otherwise, with B,G,R reordered to
\* R,G,B and each row taken at its padded stride.
C9_CanonicalBufferRows ==
    (e_pc \in {"rows", "resize", "open_out", "write"} /\ heap["src"] = "live"
       /\ src_w >= 1 /\ src_h >= 1) =>
        \A x \in 0..(src_w - 1), y \in 0..(src_h - 1) :
            (FileRowOf(y) < row /\ RowInFile(FileRowOf(y))) =>
                mem["src"][y * src_w + x + 1] = FilePixel(x, FileRowOf(y))

\* C9 witness: a bottom-up image one pixel wide (one padding byte per row) and
\* two rows high has been read whole: buffer row 0 is the second row read.
C9_Witness ==
    /\ e_pc = "resize"
    /\ ih.biWidth = 1 /\ ih.biHeight = 2
    /\ RowInFile(1)
    /\ mem["src"][1] = FilePixel(0, 1)
    /\ mem["src"][2] = FilePixel(0, 0)

\* C10: whenever the Resampler runs, for every destination pixel the four
\* source positions satisfy 0 <= x0 <= x1 <= src_w-1 and 0 <= y0 <= y1 <=
\* src_h-1, and every index read lies in [0, src_w*src_h).
C10_ResamplerReadsInBounds ==
    (e_pc = "resize" /\ ~(src_w = OUT_WIDTH /\ src_h = OUT_HEIGHT)) =>
        \A dst_x \in 0..(OUT_WIDTH - 1), dst_y \in 0..(OUT_HEIGHT - 1) :
            LET x0 == coord0(dst_x, src_w, OUT_WIDTH)
                y0 == coord0(dst_y, src_h, OUT_HEIGHT)
                x1 == coord1(x0, src_w)
                y1 == coord1(y0, src_h)
            IN  /\ 0 <= x0 /\ x0 <= x1 /\ x1 <= src_w - 1
                /\ 0 <= y0 /\ y0 <= y1 /\ y1 <= src_h - 1
                /\ \A i \in {y0 * src_w + x0, y0 * src_w + x1,
                             y1 * src_w + x0, y1 * src_w + x1} :
                      0 <= i /\ i < src_w * src_h

---------------------------------------------------------------------------
(* Claim on the colour codec                                               *)

\* C8: for every 8-bit channel value c, the byte convert.c writes for the
\* line bmp_to_hex.c printed is floor((c >> shift) * 255 / max) (shift 3 and
\* max 31 for red and blue, shift 2 and max 63 for green), lies in the
\* quantization bucket of c (encoding it again gives the same word), and is 0
\* for c = 0 and 255 for c = 255; for every 16-bit word the three decoded
\* channels lie in 0..255.
C8_RoundTripStaysInBucket ==
    c_pc = "decoded" =>
        /\ \A i \in 1..3 : c_out[i] \in 0..255
        /\ c_in # <<>> =>
              /\ c_out[1] = ((c_in.r \div 8) * 255) \div 31
              /\ c_out[2] = ((c_in.g \div 4) * 255) \div 63
              /\ c_out[3] = ((c_in.b \div 8) * 255) \div 31
              /\ c_out[1] \div 8 = c_in.r \div 8
              /\ c_out[2] \div 4 = c_in.g \div 4
              /\ c_out[3] \div 8 = c_in.b \div 8
              /\ to_rgb565(c_out[1], c_out[2], c_out[3]) = to_rgb565(c_in.r, c_in.g, c_in.b)
              /\ (c_in.r = 0 => c_out[1] = 0) /\ (c_in.r = 255 => c_out[1] = 255)
              /\ (c_in.g = 0 => c_out[2] = 0) /\ (c_in.g = 255 => c_out[2] = 255)
              /\ (c_in.b = 0 => c_out[3] = 0) /\ (c_in.b = 255 => c_out[3] = 255)

\* C8 witness: white has gone through both tools and come back white.
C8_Witness ==
    /\ c_pc = "decoded"
    /\ c_in = [r |-> 255, g |-> 255, b |-> 255]
    /\ c_line = <<"F", "F", "F", "F", "\n">>
    /\ c_out = <<255, 255, 255>>

---------------------------------------------------------------------------
(* Claim on resize_bilinear, 2 x 2 to 4 x 4                                *)

Src2(x, y) == r_src[y * 2 + x + 1]
Dst4(x, y) == r_dst[y * 4 + x + 1]

IsCorner(x, y) == x \in {0, 3} /\ y \in {0, 3}

\* The source column (row) sampled by destination column (row) d when the
\* sample coordinate d/2 needs no blend.
Near(d) == IF d >= 2 THEN 1 ELSE 0

\* C7 as claimed: the four output corners are the source corners, and each of
\* the 12 other output pixels equals none of the four source colours.
C7_NonCornersAllInterpolated ==
    r_pc = "done" =>
        /\ Dst4(0, 0) = Src2(0, 0) /\ Dst4(3, 0) = Src2(1, 0)
        /\ Dst4(0, 3) = Src2(0, 1) /\ Dst4(3, 3) = Src2(1, 1)
        /\ \A x, y \in 0..3 : ~IsCorner(x, y) => Dst4(x, y) \notin Range(r_src)

\* The truncated mean of channel ch over source columns xs and rows ys.
MeanOf(ch, xs, ys) ==
    LET n == Cardinality(xs) * Cardinality(ys)
        s == IF n = 1 THEN ch[CHOOSE x \in xs : TRUE, CHOOSE y \in ys : TRUE]
             ELSE IF n = 4 THEN ch[0, 0] + ch[1, 0] + ch[0, 1] + ch[1, 1]
             ELSE IF Cardinality(xs) = 2
                  THEN ch[0, CHOOSE y \in ys : TRUE] + ch[1, CHOOSE y \in ys : TRUE]
                  ELSE ch[CHOOSE x \in xs : TRUE, 0] + ch[CHOOSE x \in xs : TRUE, 1]
    IN  s \div n

\* C7 as amended: the four output corners are the source corners; every
\* output pixel in a column and a row other than 1 is a source pixel, copied;
\* the seven pixels of column 1 or row 1 are, channel by channel, the
\* truncated mean of the two or four source pixels around them.
C7_CornersExactOthersCopiedOrMean ==
    r_pc = "done" =>
        /\ Dst4(0, 0) = Src2(0, 0) /\ Dst4(3, 0) = Src2(1, 0)
        /\ Dst4(0, 3) = Src2(0, 1) /\ Dst4(3, 3) = Src2(1, 1)
        /\ \A x, y \in 0..3 :
              LET xs == IF x = 1 THEN {0, 1} ELSE {Near(x)}
                  ys == IF y = 1 THEN {0, 1} ELSE {Near(y)}
                  R  == [i \in 0..1, j \in 0..1 |-> Src2(i, j).r]
                  G  == [i \in 0..1, j \in 0..1 |-> Src2(i, j).g]
                  B  == [i \in 0..1, j \in 0..1 |-> Src2(i, j).b]
              IN  Dst4(x, y) = [r |-> MeanOf(R, xs, ys), g |-> MeanOf(G, xs, ys),
                                b |-> MeanOf(B, xs, ys)]

\* C7 witness: the call has returned, pixel (1,0) is a blend that is neither
\* of its two neighbours, and pixel (2,0) is the source's right top corner.
C7_Witness ==
    /\ r_pc = "done"
    /\ Dst4(1, 0) \notin {Src2(0, 0), Src2(1, 0)}
    /\ Dst4(2, 0) = Src2(1, 0)
    /\ Dst4(1, 1) \notin Range(r_src)

====
